---- MODULE Spec2Model ----
(***************************************************************************)
(* Model of mlflow/pytorch/_pytorch_autolog.py: the autologging shim that  *)
(* patches pl.Trainer.fit, appends a callback of class __MLflowPLCallback  *)
(* to trainer.callbacks and, from the callback's hooks, calls the MLflow   *)
(* tracking API.                                                           *)
(*                                                                         *)
(* One trainer is modelled.  The training framework (pytorch_lightning) is *)
(* the environment: it walks trainer.callbacks and fires each lifecycle    *)
(* hook on every callback, in list order.  The tracking backend is the     *)
(* environment too: during a hook any subset of its functions may fail.    *)
(* `calls` holds the backend calls issued by the most recent operation.    *)
(***************************************************************************)
EXTENDS Integers, Sequences, FiniteSets, TLC

VARIABLES
    every_n_epoch,  \* module global every_n_epoch
    patch_gen,      \* number of _autolog calls; 0: pl.Trainer.fit is unpatched
    active_run,     \* mlflow.active_run() is not None
    trainer,        \* the trainer object's fields
    user_callbacks, \* the callbacks the user constructed the trainer with
    pc,             \* position of the framework in fit / test
    cursor,         \* next index of trainer.callbacks the current hook visits
    current_epoch,  \* pl_module.current_epoch
    auto_end_run,   \* local auto_end_run of _run_and_log_function
    hook,           \* the operation that issued `calls`, and on which callback
    calls,          \* backend calls issued by that operation, in order
    warned,         \* try_mlflow_log swallowed a failure during that operation
    result          \* how the last fit / test ended

vars == <<every_n_epoch, patch_gen, active_run, trainer, user_callbacks, pc,
          cursor, current_epoch, auto_end_run, hook, calls, warned, result>>

----------------------------------------------------------------------------
(* Bounds of the model. *)

MaxN == 2
MaxEpochs == 2
MaxCallbacks == 1
MaxAutologCalls == 1

----------------------------------------------------------------------------
(* Values.  A logged value is wrapped by its Python type, so that values   *)
(* of different types are different and never compared as equals.          *)

IntV(v) == [int |-> v]
StrV(s) == [str |-> s]

EmptyDict == [k \in {} |-> 0]

(* The names of the five EarlyStopping attributes logged as parameters. *)
EarlyStopParams == <<"monitor", "mode", "patience", "min_delta", "stopped_epoch">>

(* An EarlyStopping callback: `attrs` maps the attributes the object has   *)
(* to their values.                                                        *)
EarlyStopping(attrs) == [kind |-> "EarlyStopping", attrs |-> attrs]

(* Some other user callback. *)
OtherCallback == [kind |-> "Callback"]

(* An instance of the class __MLflowPLCallback created by the gen-th call  *)
(* of _autolog.                                                            *)
MLflowPLCallback(gen) ==
    [kind |-> "__MLflowPLCallback", gen |-> gen, early_stopping |-> FALSE]

ESFull ==
    EarlyStopping([a \in {"monitor", "mode", "patience", "min_delta", "stopped_epoch",
                          "best_score", "wait_count"} |->
                     CASE a = "monitor" -> 7
                       [] a = "mode" -> 8
                       [] a = "patience" -> 3
                       [] a = "min_delta" -> 0
                       [] a = "stopped_epoch" -> 0
                       [] a = "best_score" -> 5
                       [] OTHER -> 1])

ESStopped ==
    EarlyStopping([a \in {"monitor", "patience", "stopped_epoch", "wait_count"} |->
                     CASE a = "monitor" -> 9
                       [] a = "patience" -> 0
                       [] a = "stopped_epoch" -> 1
                       [] OTHER -> 2])

UserCallbackObjects == {OtherCallback, ESFull, ESStopped}

SeqsUpTo(S, n) == UNION {[1..k -> S] : k \in 0..n}

(* Optimizers: the type name, and `defaults` when the object has it. *)
Optimizer(type, has_defaults, defaults) ==
    [type |-> type, has_defaults |-> has_defaults, defaults |-> defaults]

Adam == Optimizer("Adam", TRUE,
                  [k \in {"lr", "eps", "betas", "weight_decay"} |->
                     CASE k = "lr" -> 1 [] k = "eps" -> 2 [] k = "betas" -> 3 [] OTHER -> 0])
SGD == Optimizer("SGD", TRUE,
                 [k \in {"lr", "weight_decay", "momentum"} |->
                     CASE k = "lr" -> 5 [] k = "weight_decay" -> 6 [] OTHER -> 7])
LBFGS == Optimizer("LBFGS", TRUE, EmptyDict)
Custom == Optimizer("MyOpt", FALSE, EmptyDict)

(* has_optimizers is hasattr(trainer, "optimizers"). *)
OptimizerConfigs ==
    {[has |-> FALSE, list |-> <<>>]} \cup
    {[has |-> TRUE, list |-> l] :
        l \in {<<>>, <<Custom>>, <<LBFGS>>, <<Adam, SGD>>}}

(* str.lower() of the optimizer type names. *)
Lower(s) ==
    CASE s = "Adam" -> "adam"
      [] s = "SGD" -> "sgd"
      [] s = "LBFGS" -> "lbfgs"
      [] s = "MyOpt" -> "myopt"
      [] OTHER -> s

(* trainer.callback_metrics dictionaries, iterated in insertion order. *)
MetricOrder == <<"loss", "acc">>
MetricDicts ==
    {EmptyDict, [k \in {"loss"} |-> 4], [k \in {"loss", "acc"} |-> IF k = "loss" THEN 2 ELSE 9]}

BestModelPaths == {"", "epoch=1.ckpt"}

(* The functions of the tracking backend the module calls. *)
BackendFns ==
    {"start_run", "end_run", "set_tag", "log_param", "log_metric", "log_artifact", "log_model"}

(* The functions that fail while one operation runs, among the functions   *)
(* `fns` the operation can call.                                            *)
Failures(fns) == SUBSET (fns \cap BackendFns)

----------------------------------------------------------------------------
(* Execution of one hook.  A frame carries the calls issued so far, whether *)
(* try_mlflow_log swallowed a failure, and the exception that is            *)
(* propagating ("none" while the hook is still running).  A statement       *)
(* reached while an exception propagates is skipped.                        *)

NewFrame == [calls |-> <<>>, warned |-> FALSE, exc |-> "none"]

(* mlflow.utils.autologging_utils.try_mlflow_log(fn, ...): call fn and      *)
(* swallow its failure.                                                     *)
try_mlflow_log(fr, call, fails) ==
    IF fr.exc # "none" THEN fr
    ELSE [fr EXCEPT !.calls = Append(@, call),
                    !.warned = @ \/ (call.fn \in fails)]

(* A direct call of a backend function: its failure propagates. *)
direct_call(fr, call, fails) ==
    IF fr.exc # "none" THEN fr
    ELSE [fr EXCEPT !.calls = Append(@, call),
                    !.exc = IF call.fn \in fails THEN "MlflowException" ELSE "none"]

raise(fr, exception) ==
    IF fr.exc # "none" THEN fr ELSE [fr EXCEPT !.exc = exception]

set_tag(key, value) == [fn |-> "set_tag", key |-> key, value |-> value]
log_param(key, value) == [fn |-> "log_param", key |-> key, value |-> value]
log_metric(key, value) == [fn |-> "log_metric", key |-> key, value |-> value]
log_metric_step(key, value, step) ==
    [fn |-> "log_metric", key |-> key, value |-> value, step |-> step]
log_artifact(local_path) == [fn |-> "log_artifact", local_path |-> local_path]
log_artifact_at(local_path, artifact_path) ==
    [fn |-> "log_artifact", local_path |-> local_path, artifact_path |-> artifact_path]
log_model(artifact_path) == [fn |-> "log_model", artifact_path |-> artifact_path]

hasattr(obj, name) == name \in DOMAIN obj.attrs

IsEarlyStopping(cb) == cb.kind = "EarlyStopping"
IsAutolog(cb) == cb.kind = "__MLflowPLCallback"
IsAutologOf(cb, gen) == IsAutolog(cb) /\ cb.gen = gen

(* __MLflowPLCallback._log_early_stop_params *)
RECURSIVE LogEarlyStopParamsFrom(_, _, _, _)
LogEarlyStopParamsFrom(fr, es, k, fails) ==
    IF k > Len(EarlyStopParams) THEN fr
    ELSE LET name == EarlyStopParams[k]
             fr1 == IF hasattr(es, name)
                    THEN try_mlflow_log(fr, log_param(name, IntV(es.attrs[name])), fails)
                    ELSE fr
         IN LogEarlyStopParamsFrom(fr1, es, k + 1, fails)

(* _log_early_stop_params without its first hasattr block. *)
_log_early_stop_params_SkipFirst(fr, es, fails) == LogEarlyStopParamsFrom(fr, es, 2, fails)

_log_early_stop_params(fr, es, fails) == LogEarlyStopParamsFrom(fr, es, 1, fails)

Max(a, b) == IF a >= b THEN a ELSE b

(* __MLflowPLCallback._early_stop_check: stopped_epoch and patience are     *)
(* read without a hasattr guard.                                            *)
_early_stop_check(fr, es, fails) ==
    IF ~hasattr(es, "stopped_epoch") THEN raise(fr, "AttributeError")
    ELSE IF es.attrs["stopped_epoch"] = 0 THEN fr
    ELSE LET fr1 == try_mlflow_log(
                        fr, log_metric("stopped_epoch", IntV(es.attrs["stopped_epoch"])), fails)
             fr2 == IF ~hasattr(es, "patience") THEN raise(fr1, "AttributeError")
                    ELSE try_mlflow_log(
                             fr1,
                             log_metric("restored_epoch",
                                        IntV(es.attrs["stopped_epoch"]
                                               - Max(1, es.attrs["patience"]))),
                             fails)
             fr3 == IF hasattr(es, "best_score")
                    THEN try_mlflow_log(
                             fr2, log_metric("best_score", IntV(es.attrs["best_score"])), fails)
                    ELSE fr2
         IN IF hasattr(es, "wait_count")
            THEN try_mlflow_log(
                     fr3, log_metric("wait_count", IntV(es.attrs["wait_count"])), fails)
            ELSE fr3

(* on_epoch_end, lines 65-69: the metrics of trainer.callback_metrics, in   *)
(* the dictionary's order, each with step = current_epoch.                  *)
RECURSIVE LogEpochMetricsFrom(_, _, _, _, _)
LogEpochMetricsFrom(fr, metrics, epoch, k, fails) ==
    IF k > Len(MetricOrder) THEN fr
    ELSE LET key == MetricOrder[k]
             fr1 == IF key \in DOMAIN metrics
                    THEN try_mlflow_log(
                             fr, log_metric_step(key, IntV(metrics[key]), epoch), fails)
                    ELSE fr
         IN LogEpochMetricsFrom(fr1, metrics, epoch, k + 1, fails)

(* The test of line 65 without the "+ 1". *)
IsLoggedEpoch_OffByOne(epoch, n) == epoch % n = 0

(* on_epoch_end, line 65: the epochs whose metrics are logged. *)
IsLoggedEpoch(epoch, n) == (epoch + 1) % n = 0

(* on_epoch_end, lines 71-73. *)
RECURSIVE EarlyStopChecksFrom(_, _, _, _)
EarlyStopChecksFrom(fr, callbacks, k, fails) ==
    IF k > Len(callbacks) THEN fr
    ELSE LET fr1 == IF IsEarlyStopping(callbacks[k])
                    THEN _early_stop_check(fr, callbacks[k], fails)
                    ELSE fr
         IN EarlyStopChecksFrom(fr1, callbacks, k + 1, fails)

(* __MLflowPLCallback.on_epoch_end *)
on_epoch_end(tr, epoch, n, fails) ==
    LET fr1 == IF IsLoggedEpoch(epoch, n)
               THEN LogEpochMetricsFrom(NewFrame, tr.callback_metrics, epoch, 1, fails)
               ELSE NewFrame
    IN EarlyStopChecksFrom(fr1, tr.callbacks, 1, fails)

(* on_train_start, lines 85-88: the early-stopping callbacks' parameters. *)
RECURSIVE LogEarlyStopCallbacksFrom(_, _, _, _)
LogEarlyStopCallbacksFrom(fr, callbacks, k, fails) ==
    IF k > Len(callbacks) THEN fr
    ELSE LET fr1 == IF IsEarlyStopping(callbacks[k])
                    THEN _log_early_stop_params(fr, callbacks[k], fails)
                    ELSE fr
         IN LogEarlyStopCallbacksFrom(fr1, callbacks, k + 1, fails)

(* Line 93 without .lower(). *)
OptimizerSuffix_NoLower(optimizer) == optimizer.type \o "_optimizer"

(* on_train_start, line 93. *)
OptimizerSuffix(optimizer) == Lower(optimizer.type) \o "_optimizer"

(* on_train_start, lines 92-120: the parameters of one optimizer. *)
LogOptimizer(fr, optimizer, fails) ==
    LET optimizer_name == OptimizerSuffix(optimizer)
        optim_dict == optimizer.defaults
        fr0 == try_mlflow_log(fr, log_param("optimizer_name", StrV(optimizer.type)), fails)
        fr1 == IF "lr" \in DOMAIN optim_dict
               THEN try_mlflow_log(
                        fr0, log_param("learning_rate_" \o optimizer_name,
                                       IntV(optim_dict["lr"])), fails)
               ELSE fr0
        fr2 == IF "eps" \in DOMAIN optim_dict
               THEN try_mlflow_log(
                        fr1, log_param("epsilon_" \o optimizer_name,
                                       IntV(optim_dict["eps"])), fails)
               ELSE fr1
        fr3 == IF "betas" \in DOMAIN optim_dict
               THEN try_mlflow_log(
                        fr2, log_param("betas_" \o optimizer_name,
                                       IntV(optim_dict["betas"])), fails)
               ELSE fr2
        fr4 == IF "weight_decay" \in DOMAIN optim_dict
               THEN try_mlflow_log(
                        fr3, log_param("weight_decay_" \o optimizer_name,
                                       IntV(optim_dict["weight_decay"])), fails)
               ELSE fr3
    IN IF optimizer.has_defaults THEN fr4 ELSE fr0

(* on_train_start, lines 90-91. *)
RECURSIVE LogOptimizersFrom(_, _, _, _)
LogOptimizersFrom(fr, optimizers, k, fails) ==
    IF k > Len(optimizers) THEN fr
    ELSE LogOptimizersFrom(LogOptimizer(fr, optimizers[k], fails), optimizers, k + 1, fails)

(* __MLflowPLCallback.on_train_start: the calls it issues. *)
on_train_start(tr, fails) ==
    LET fr1 == try_mlflow_log(NewFrame, set_tag("Mode", StrV("training")), fails)
        fr2 == try_mlflow_log(fr1, log_param("epochs", IntV(tr.max_epochs)), fails)
        fr3 == LogEarlyStopCallbacksFrom(fr2, tr.callbacks, 1, fails)
        fr4 == IF tr.has_optimizers
               THEN LogOptimizersFrom(fr3, tr.optimizers, 1, fails)
               ELSE fr3
    IN try_mlflow_log(fr4, log_artifact("model_summary.txt"), fails)

(* on_train_start, lines 85-87: self.early_stopping after the hook. *)
EarlyStoppingFlag(self, tr) ==
    IF \E k \in 1..Len(tr.callbacks) : IsEarlyStopping(tr.callbacks[k])
    THEN TRUE
    ELSE self.early_stopping

(* __MLflowPLCallback.on_train_end *)
on_train_end(self, tr, fails) ==
    LET fr1 == direct_call(NewFrame, log_model("model"), fails)
    IN IF self.early_stopping /\ tr.best_model_path # ""
       THEN try_mlflow_log(
                fr1, log_artifact_at(tr.best_model_path, "restored_model_checkpoint"), fails)
       ELSE fr1

(* on_test_end, lines 158-159. *)
RECURSIVE LogTestMetricsFrom(_, _, _, _)
LogTestMetricsFrom(fr, metrics, k, fails) ==
    IF k > Len(MetricOrder) THEN fr
    ELSE LET key == MetricOrder[k]
             fr1 == IF key \in DOMAIN metrics
                    THEN try_mlflow_log(fr, log_metric(key, IntV(metrics[key])), fails)
                    ELSE fr
         IN LogTestMetricsFrom(fr1, metrics, k + 1, fails)

(* __MLflowPLCallback.on_test_end *)
on_test_end(tr, fails) ==
    LogTestMetricsFrom(try_mlflow_log(NewFrame, set_tag("Mode", StrV("testing")), fails),
                       tr.callback_metrics, 1, fails)

(* Line 221 without the test of line 220. *)
AddCallback_Unguarded(callbacks, gen) == callbacks \o <<MLflowPLCallback(gen)>>

(* _run_and_log_function, lines 220-221. *)
AddCallback(callbacks, gen) ==
    IF ~\E k \in 1..Len(callbacks) : IsAutologOf(callbacks[k], gen)
    THEN callbacks \o <<MLflowPLCallback(gen)>>
    ELSE callbacks

----------------------------------------------------------------------------
(* The state machine. *)

Trainers ==
    [callbacks : SeqsUpTo(UserCallbackObjects, MaxCallbacks),
     max_epochs : 1..MaxEpochs,
     has_optimizers : {FALSE},
     optimizers : {<<>>},
     callback_metrics : {EmptyDict},
     best_model_path : {""}]

Op(name, cb) == [name |-> name, cb |-> cb]

Init ==
    /\ every_n_epoch = 1
    /\ patch_gen = 0
    /\ active_run = FALSE
    /\ trainer \in Trainers
    /\ user_callbacks = trainer.callbacks
    /\ pc = "idle"
    /\ cursor = 1
    /\ current_epoch = 0
    /\ auto_end_run = FALSE
    /\ hook = Op("none", 0)
    /\ calls = <<>>
    /\ warned = FALSE
    /\ result = "none"

(* The autolog callbacks the running hook has still to visit. *)
Pending == {i \in cursor..Len(trainer.callbacks) : IsAutolog(trainer.callbacks[i])}

NextCallback == CHOOSE i \in Pending : \A j \in Pending : i <= j

(* _autolog(log_every_n_epoch = n): sets the global and patches             *)
(* pl.Trainer.fit with a fit bound to a new class __MLflowPLCallback.       *)
_autolog(n) ==
    /\ pc = "idle"
    /\ patch_gen < MaxAutologCalls
    /\ every_n_epoch' = n
    /\ patch_gen' = patch_gen + 1
    /\ hook' = Op("_autolog", 0)
    /\ calls' = <<>>
    /\ warned' = FALSE
    /\ UNCHANGED <<active_run, trainer, user_callbacks, pc, cursor, current_epoch,
                   auto_end_run, result>>

(* The user starts or ends a run with mlflow.start_run / mlflow.end_run. *)
user_run ==
    /\ pc = "idle"
    /\ active_run' = ~active_run
    /\ hook' = Op("user_run", 0)
    /\ calls' = <<>>
    /\ warned' = FALSE
    /\ UNCHANGED <<every_n_epoch, patch_gen, trainer, user_callbacks, pc, cursor,
                   current_epoch, auto_end_run, result>>

(* trainer.fit(...): _run_and_log_function up to the call of the original   *)
(* fit (lines 214-222) when fit is patched, the original fit otherwise; the *)
(* original fit sets trainer.optimizers before it fires on_train_start.     *)
fit(fails, oc) ==
    /\ pc = "idle"
    /\ LET start == patch_gen > 0 /\ ~active_run
           fr == IF start THEN try_mlflow_log(NewFrame, [fn |-> "start_run"], fails)
                 ELSE NewFrame
       IN /\ active_run' = IF start THEN "start_run" \notin fails ELSE active_run
          /\ auto_end_run' = start
          /\ trainer' = [trainer EXCEPT
                            !.callbacks = IF patch_gen > 0 THEN AddCallback(@, patch_gen)
                                          ELSE @,
                            !.has_optimizers = oc.has,
                            !.optimizers = oc.list,
                            !.callback_metrics = EmptyDict,
                            !.best_model_path = ""]
          /\ calls' = fr.calls
          /\ warned' = fr.warned
    /\ hook' = Op("fit", 0)
    /\ pc' = "train_start"
    /\ cursor' = 1
    /\ current_epoch' = 0
    /\ result' = "none"
    /\ UNCHANGED <<every_n_epoch, patch_gen, user_callbacks>>

(* How a hook that ran on callback i leaves the framework: at the next      *)
(* callback, or unwinding out of fit / test with its exception (there is no *)
(* handler in _run_and_log_function, so end_run is skipped).                *)
HookDone(name, i, fr) ==
    /\ hook' = Op(name, i)
    /\ calls' = fr.calls
    /\ warned' = fr.warned
    /\ IF fr.exc = "none"
       THEN /\ cursor' = i + 1
            /\ UNCHANGED <<pc, current_epoch, auto_end_run, result>>
       ELSE /\ pc' = "idle"
            /\ cursor' = 1
            /\ current_epoch' = 0
            /\ auto_end_run' = FALSE
            /\ result' = fr.exc

fire_on_train_start(fails) ==
    /\ pc = "train_start"
    /\ Pending # {}
    /\ LET i == NextCallback
       IN /\ trainer' = [trainer EXCEPT !.callbacks[i].early_stopping =
                                            EarlyStoppingFlag(trainer.callbacks[i], trainer)]
          /\ HookDone("on_train_start", i, on_train_start(trainer, fails))
    /\ UNCHANGED <<every_n_epoch, patch_gen, active_run, user_callbacks>>

(* The framework runs an epoch and then fires on_epoch_end. *)
run_epoch(metrics) ==
    /\ \/ pc = "train_start" /\ Pending = {} /\ current_epoch' = 0
       \/ pc = "epoch_end" /\ Pending = {} /\ current_epoch + 1 < trainer.max_epochs
             /\ current_epoch' = current_epoch + 1
    /\ pc' = "epoch_end"
    /\ cursor' = 1
    /\ trainer' = [trainer EXCEPT !.callback_metrics = metrics]
    /\ hook' = Op("run_epoch", 0)
    /\ calls' = <<>>
    /\ warned' = FALSE
    /\ UNCHANGED <<every_n_epoch, patch_gen, active_run, user_callbacks, auto_end_run,
                   result>>

fire_on_epoch_end(fails) ==
    /\ pc = "epoch_end"
    /\ Pending # {}
    /\ HookDone("on_epoch_end", NextCallback,
                on_epoch_end(trainer, current_epoch, every_n_epoch, fails))
    /\ UNCHANGED <<every_n_epoch, patch_gen, active_run, trainer, user_callbacks>>

(* After the last epoch the framework fires on_train_end; the checkpoint    *)
(* callback has set best_model_path by then.                                *)
end_training(path) ==
    /\ pc = "epoch_end"
    /\ Pending = {}
    /\ current_epoch + 1 >= trainer.max_epochs
    /\ pc' = "train_end"
    /\ cursor' = 1
    /\ trainer' = [trainer EXCEPT !.best_model_path = path]
    /\ hook' = Op("end_training", 0)
    /\ calls' = <<>>
    /\ warned' = FALSE
    /\ UNCHANGED <<every_n_epoch, patch_gen, active_run, user_callbacks, current_epoch,
                   auto_end_run, result>>

fire_on_train_end(fails) ==
    /\ pc = "train_end"
    /\ Pending # {}
    /\ LET i == NextCallback
       IN HookDone("on_train_end", i, on_train_end(trainer.callbacks[i], trainer, fails))
    /\ UNCHANGED <<every_n_epoch, patch_gen, active_run, trainer, user_callbacks>>

(* The original fit returns; _run_and_log_function, lines 223-225. *)
fit_return(fails) ==
    /\ pc = "train_end"
    /\ Pending = {}
    /\ LET fr == IF auto_end_run THEN try_mlflow_log(NewFrame, [fn |-> "end_run"], fails)
                 ELSE NewFrame
       IN /\ active_run' = IF auto_end_run /\ "end_run" \notin fails THEN FALSE
                           ELSE active_run
          /\ calls' = fr.calls
          /\ warned' = fr.warned
    /\ hook' = Op("fit_return", 0)
    /\ pc' = "idle"
    /\ cursor' = 1
    /\ current_epoch' = 0
    /\ auto_end_run' = FALSE
    /\ result' = "fit_result"
    /\ UNCHANGED <<every_n_epoch, patch_gen, trainer, user_callbacks>>

(* trainer.test(...): not patched; the framework fires on_test_end. *)
test(metrics) ==
    /\ pc = "idle"
    /\ pc' = "test_end"
    /\ cursor' = 1
    /\ trainer' = [trainer EXCEPT !.callback_metrics = metrics]
    /\ hook' = Op("test", 0)
    /\ calls' = <<>>
    /\ warned' = FALSE
    /\ result' = "none"
    /\ UNCHANGED <<every_n_epoch, patch_gen, active_run, user_callbacks, current_epoch,
                   auto_end_run>>

fire_on_test_end(fails) ==
    /\ pc = "test_end"
    /\ Pending # {}
    /\ HookDone("on_test_end", NextCallback, on_test_end(trainer, fails))
    /\ UNCHANGED <<every_n_epoch, patch_gen, active_run, trainer, user_callbacks>>

test_return ==
    /\ pc = "test_end"
    /\ Pending = {}
    /\ pc' = "idle"
    /\ cursor' = 1
    /\ hook' = Op("test_return", 0)
    /\ calls' = <<>>
    /\ warned' = FALSE
    /\ result' = "test_result"
    /\ UNCHANGED <<every_n_epoch, patch_gen, active_run, trainer, user_callbacks,
                   current_epoch, auto_end_run>>

Next ==
    \/ \E n \in 1..MaxN : _autolog(n)
    \/ user_run
    \/ \E fails \in Failures({"start_run"}), oc \in OptimizerConfigs : fit(fails, oc)
    \/ \E fails \in Failures({"set_tag", "log_param", "log_artifact"}) :
          fire_on_train_start(fails)
    \/ \E metrics \in MetricDicts : run_epoch(metrics)
    \/ \E fails \in Failures({"log_metric"}) : fire_on_epoch_end(fails)
    \/ \E path \in BestModelPaths : end_training(path)
    \/ \E fails \in Failures({"log_model", "log_artifact"}) : fire_on_train_end(fails)
    \/ \E fails \in Failures({"end_run"}) : fit_return(fails)
    \/ \E metrics \in MetricDicts : test(metrics)
    \/ \E fails \in Failures({"set_tag", "log_metric"}) : fire_on_test_end(fails)
    \/ test_return

Spec == Init /\ [][Next]_vars

----------------------------------------------------------------------------
(* Properties. *)

Positions == 1..Len(calls)
Callbacks == trainer.callbacks
EarlyStoppingCallbacks == {k \in 1..Len(Callbacks) : IsEarlyStopping(Callbacks[k])}
AutologCallbacks == {k \in 1..Len(Callbacks) : IsAutolog(Callbacks[k])}
FitPhases == {"train_start", "epoch_end", "train_end"}

(* C1: a failing call of the tracking backend never aborts training: no    *)
(* fit or test ends with the backend's exception instead of its result.    *)
C1_BackendFailureNeverAborts == result # "MlflowException"

(* C2: on_epoch_end for epoch e logs every entry of                        *)
(* trainer.callback_metrics, with step = e, if and only if e + 1 is a       *)
(* multiple of every_n_epoch (so after every epoch when it is 1), and logs  *)
(* no other metric with a step.                                             *)
IsMultiple(a, n) == \E m \in 1..a : m * n = a
SteppedCalls == {i \in Positions : calls[i].fn = "log_metric" /\ "step" \in DOMAIN calls[i]}
C2_MetricsEveryNEpochs ==
    (hook.name = "on_epoch_end" /\ pc = "epoch_end") =>
        LET metrics == trainer.callback_metrics
            due == IsMultiple(current_epoch + 1, every_n_epoch)
        IN /\ \A key \in DOMAIN metrics :
                  due <=> \E i \in Positions :
                              calls[i] = [fn |-> "log_metric", key |-> key,
                                          value |-> IntV(metrics[key]),
                                          step |-> current_epoch]
           /\ \A i \in SteppedCalls :
                  /\ due
                  /\ calls[i].key \in DOMAIN metrics
                  /\ calls[i].step = current_epoch
           /\ due => Cardinality(SteppedCalls) = Cardinality(DOMAIN metrics)
           /\ every_n_epoch = 1 => due

C2_Witness ==
    /\ hook.name = "on_epoch_end"
    /\ pc = "epoch_end"
    /\ every_n_epoch = 2
    /\ current_epoch = 1
    /\ Cardinality(SteppedCalls) = 2

(* C3: with autolog enabled once, trainer.callbacks is the user's list,    *)
(* unchanged and in the same order, followed by at most one autolog         *)
(* callback; during and after every patched fit it is followed by exactly   *)
(* one.                                                                     *)
CallbackAppended ==
    /\ Len(Callbacks) = Len(user_callbacks) + 1
    /\ SubSeq(Callbacks, 1, Len(user_callbacks)) = user_callbacks
    /\ AutologCallbacks = {Len(Callbacks)}
CheckpointCalls ==
    {i \in Positions :
        calls[i] = [fn |-> "log_artifact", local_path |-> trainer.best_model_path,
                    artifact_path |-> "restored_model_checkpoint"]}
C4_ModelThenCheckpoint ==
    hook.name = "on_train_end" =>
        /\ Len(calls) >= 1
        /\ calls[1] = [fn |-> "log_model", artifact_path |-> "model"]
        /\ (CheckpointCalls # {}) <=>
               (Callbacks[hook.cb].early_stopping /\ trainer.best_model_path # "")
        /\ \A i \in Positions : calls[i].fn = "log_artifact" => i \in CheckpointCalls /\ i > 1

(* C5: on_train_start logs, after the "Mode" tag and the "epochs"          *)
(* parameter, each of monitor, mode, patience, min_delta, stopped_epoch     *)
(* that an EarlyStopping callback of trainer.callbacks has, under that      *)
(* name; without such a callback none of the five is logged.                *)
FiveParams == {"monitor", "mode", "patience", "min_delta", "stopped_epoch"}
C5_EarlyStopParams ==
    hook.name = "on_train_start" =>
        /\ Len(calls) >= 2
        /\ calls[1] = [fn |-> "set_tag", key |-> "Mode", value |-> StrV("training")]
        /\ calls[2] = [fn |-> "log_param", key |-> "epochs",
                       value |-> IntV(trainer.max_epochs)]
        /\ \A k \in EarlyStoppingCallbacks :
               \A name \in FiveParams \cap DOMAIN Callbacks[k].attrs :
                   \E i \in Positions :
                       /\ i > 2
                       /\ calls[i] = [fn |-> "log_param", key |-> name,
                                      value |-> IntV(Callbacks[k].attrs[name])]
        /\ EarlyStoppingCallbacks = {} =>
               \A i \in Positions :
                   calls[i].fn = "log_param" => calls[i].key \notin FiveParams

C5_Witness ==
    /\ hook.name = "on_train_start"
    /\ \E k \in EarlyStoppingCallbacks : "mode" \notin DOMAIN Callbacks[k].attrs
    /\ \E i \in Positions : calls[i] = [fn |-> "log_param", key |-> "patience",
                                        value |-> IntV(0)]

(* C6: on_train_start logs, for every optimizer of trainer.optimizers in   *)
(* order, "optimizer_name" with the type name and then each of lr, eps,     *)
(* betas, weight_decay if and only if it is a key of optimizer.defaults,    *)
(* under learning_rate_/epsilon_/betas_/weight_decay_ + the lower-cased     *)
(* type name + "_optimizer"; nothing else for the optimizer, only the name  *)
(* for one without defaults, and no optimizer parameter without optimizers. *)
LowerCased ==
    [t \in {"Adam", "SGD", "LBFGS", "MyOpt"} |->
        CASE t = "Adam" -> "adam" [] t = "SGD" -> "sgd" [] t = "LBFGS" -> "lbfgs"
          [] OTHER -> "myopt"]
KeyPrefix ==
    [d \in {"lr", "eps", "betas", "weight_decay"} |->
        CASE d = "lr" -> "learning_rate_" [] d = "eps" -> "epsilon_"
          [] d = "betas" -> "betas_" [] OTHER -> "weight_decay_"]
ExpectedKey(d, type) == KeyPrefix[d] \o LowerCased[type] \o "_optimizer"
NamePositions ==
    {i \in Positions : calls[i].fn = "log_param" /\ calls[i].key = "optimizer_name"}
(* The position of the j-th "optimizer_name" call, and the parameters      *)
(* logged from it up to the next one.                                       *)
NamePosition(j) ==
    CHOOSE p \in NamePositions : Cardinality({q \in NamePositions : q < p}) = j - 1
Segment(j) ==
    {i \in Positions :
        /\ i > NamePosition(j)
        /\ \A q \in NamePositions : q > NamePosition(j) => i < q
        /\ calls[i].fn = "log_param"}
TrainerOptimizers == IF trainer.has_optimizers THEN trainer.optimizers ELSE <<>>
C6_OptimizerParams ==
    hook.name = "on_train_start" =>
        /\ Cardinality(NamePositions) = Len(TrainerOptimizers)
        /\ \A i \in Positions :
               (calls[i].fn = "log_param" /\ calls[i].key \notin FiveParams \cup {"epochs"})
                   => \E p \in NamePositions : p <= i
        /\ \A j \in 1..Len(TrainerOptimizers) :
               LET optimizer == TrainerOptimizers[j]
                   given == IF optimizer.has_defaults THEN DOMAIN optimizer.defaults ELSE {}
               IN /\ calls[NamePosition(j)].value = StrV(optimizer.type)
                  /\ \A d \in DOMAIN KeyPrefix \cap given :
                         \E i \in Segment(j) :
                             calls[i] = [fn |-> "log_param",
                                         key |-> ExpectedKey(d, optimizer.type),
                                         value |-> IntV(optimizer.defaults[d])]
                  /\ \A d \in DOMAIN KeyPrefix \ given :
                         \A i \in Segment(j) : calls[i].key # ExpectedKey(d, optimizer.type)
                  /\ Cardinality(Segment(j)) = Cardinality(given \cap DOMAIN KeyPrefix)

C6_Witness ==
    /\ hook.name = "on_train_start"
    /\ Len(TrainerOptimizers) = 2
    /\ \E i \in Positions : calls[i].fn = "log_param"
                            /\ calls[i].key = "weight_decay_sgd_optimizer"
    /\ \A i \in Positions : calls[i].fn = "log_param" => calls[i].key # "epsilon_sgd_optimizer"

====
